---- MODULE Spec2Model ----
(***************************************************************************)
(* A model of neko_bot/core/nekobot.py: the NekoBot client.                *)
(*                                                                         *)
(*   - the staff registry (NekoBot.staff, staff_id, _load_staff),          *)
(*   - the command registration facade (on_command),                       *)
(*   - the lifecycle (start, stop, begin with its finalized / shutdown     *)
(*     closures) on a single asyncio event loop.                           *)
(*                                                                         *)
(* SpecStaff exercises the registry and on_command as operations called    *)
(* one after another; Spec is one call of begin() with signals delivered   *)
(* by the environment.                                                     *)
(***************************************************************************)
EXTENDS Integers, Sequences, FiniteSets, TLC

\* ------------------------------------------------------------------ bounds
MaxRecs == 2        \* longest STAFF collection drawn
MaxLoads == 2       \* _load_staff calls in one behaviour of SpecStaff
MaxHandlers == 1    \* on_command registrations in one behaviour of SpecStaff
MaxSignals == 2     \* signals delivered during one begin()
NumModules == 2     \* length of ALL_MODULES

\* ---------------------------------------------------------------- constants
OwnerId == 9        \* Config.OWNER_ID (any integer; distinct from UserIds here
                    \* only so that the owner is recognisable in a list)

UserIds == {1, 2}
RecRanks == {"dev", "sudo", "mod"}   \* "mod" stands for any rank that is no key
                                     \* of the registry when the record is read
Records == [rank : RecRanks, id : UserIds]

RECURSIVE SeqsUpTo(_, _)
SeqsUpTo(S, n) ==
    IF n = 0 THEN {<<>>}
    ELSE LET shorter == SeqsUpTo(S, n - 1)
         IN  shorter \cup {Append(s, x) : s \in {t \in shorter : Len(t) = n - 1}, x \in S}

Collections == SeqsUpTo(Records, MaxRecs)

VARIABLES
    \* ---- the staff registry and the command facade
    staff,        \* NekoBot.staff: rank name -> owner id / list of ids
    cursor,       \* records the running _db.find() iteration has yet to yield
    found,        \* ghost: the records the current / last _load_staff iterates
    loadPc,       \* position of _load_staff: "none" | "iter" | "done" | "error"
    loads,        \* number of _load_staff calls made
    discarded,    \* ghost: the last reset of line 56 threw entries away
    handlers,     \* handlers registered through on_command, in order
    \* ---- begin(): the main path
    mainPc,       \* "begin" | "run_start" | "run_main" | "run_fin" | "closed" | "raised"
    mainExc,      \* the exception that left begin(), "none" if none
    hasCoro,      \* begin() was given a one-shot task
    \* ---- the event loop
    running,      \* inside loop.run_forever()
    stopping,     \* loop.stop() was called during this run
    loopClosed,   \* loop.close() was called
    sigBound,     \* the three signal handlers are installed
    cur,          \* handles of the iteration in progress, yet to run
    ready,        \* handles scheduled for the next iteration (loop._ready)
    \* ---- the tasks
    pc,           \* task -> where its coroutine is suspended
    exc,          \* task -> the exception it ended with
    mustCancel,   \* tasks whose cancel() was requested and not yet delivered
    \* ---- lock = asyncio.Lock()
    locked,       \* lock._locked
    waiters,      \* lock._waiters, in order
    wfut,         \* task -> state of its waiter future
    \* ---- the collaborators
    is_initialized,   \* Client.is_initialized
    is_idling,        \* pyrogram's idle flag
    idleHooked,       \* idle() has installed its own signal handlers
    poolStarted,      \* pool.start() done and pool.stop() not
    dbConnected,      \* connect_db done and disconnect_db not
    \* ---- history
    startLog,     \* the steps of start(), as they begin and end
    finLog,       \* the steps of every execution of finalized
    sigs,         \* signals delivered so far
    idleSig       \* ghost: a signal of line 106 arrived during the idle phase

staffVars == <<staff, cursor, found, loadPc, loads, discarded, handlers>>
mainVars == <<mainPc, mainExc, hasCoro>>
loopVars == <<running, stopping, loopClosed, sigBound, cur, ready>>
taskVars == <<pc, exc, mustCancel>>
lockVars == <<locked, waiters, wfut>>
clientVars == <<is_initialized, is_idling, idleHooked, poolStarted, dbConnected>>
histVars == <<startLog, finLog, sigs, idleSig>>
lifeVars == <<mainVars, loopVars, taskVars, lockVars, clientVars, histVars>>
vars == <<staffVars, lifeVars>>

\* ------------------------------------------------------- the staff registry
KeyError == "KeyError"

\* __init__ (line 35): the class-level dict with "owner" set
InitStaff == [k \in {"owner"} |-> OwnerId]

\* staff_id (lines 46-51): [owner] + dev + sudo; reading a key the registry
\* lacks raises KeyError and no list is returned
staff_id_lenient(reg) ==
    LET at(k) == IF k \in DOMAIN reg THEN reg[k] ELSE <<>>
    IN  [raises |-> "none", ids |-> <<reg["owner"]>> \o (at("dev") \o at("sudo"))]

staff_id_swapped(reg) ==
    IF {"owner", "dev", "sudo"} \subseteq DOMAIN reg
    THEN [raises |-> "none", ids |-> <<reg["owner"]>> \o (reg["sudo"] \o reg["dev"])]
    ELSE [raises |-> KeyError, ids |-> <<>>]

staff_id(reg) ==
    IF {"owner", "dev", "sudo"} \subseteq DOMAIN reg
    THEN [raises |-> "none", ids |-> <<reg["owner"]>> \o (reg["dev"] \o reg["sudo"])]
    ELSE [raises |-> KeyError, ids |-> <<>>]

\* self.staff.update({'dev': [], 'sudo': []}) (line 56)
staff_reset_clear(reg) == [k \in {"dev", "sudo"} |-> <<>>]

staff_reset_keep(reg) ==
    [k \in DOMAIN reg \cup {"dev", "sudo"} |->
        IF k \in DOMAIN reg THEN reg[k] ELSE <<>>]

staff_reset(reg) ==
    [k \in DOMAIN reg \cup {"dev", "sudo"} |->
        IF k \in {"dev", "sudo"} THEN <<>> ELSE reg[k]]

\* self.staff[i["rank"]].append(i["_id"]) (line 58): a rank that is no key
\* raises KeyError; "owner" holds an int, which has no append
CanAppend(reg, rec) == rec.rank \in DOMAIN reg /\ rec.rank # "owner"

staff_append(reg, rec) == [reg EXCEPT ![rec.rank] = Append(@, rec.id)]

\* _load_staff run to its end on registry reg over the records recs: the
\* registry it leaves, and whether line 58 raised on the way
RECURSIVE load_records(_, _)
load_records(reg, recs) ==
    IF recs = <<>> THEN [raises |-> "none", reg |-> reg]
    ELSE IF CanAppend(reg, Head(recs))
         THEN load_records(staff_append(reg, Head(recs)), Tail(recs))
         ELSE [raises |-> KeyError, reg |-> reg]

load_staff_all(reg, recs) == load_records(staff_reset(reg), recs)

\* The state of the registry and the facade after construction (lines 24-36)
InitRegistry ==
    /\ staff = InitStaff
    /\ cursor = <<>>
    /\ found = <<>>
    /\ loadPc = "none"
    /\ loads = 0
    /\ discarded = FALSE
    /\ handlers = <<>>

\* _load_staff up to its first await (lines 55-57): the keys are reset and the
\* iteration over the collection, which holds the records c, starts
LoadBegin(c) ==
    /\ staff' = staff_reset(staff)
    /\ cursor' = c
    /\ found' = c
    /\ loadPc' = "iter"
    /\ loads' = loads + 1
    /\ discarded' = \E k \in DOMAIN staff \cap {"dev", "sudo"} : staff[k] # <<>>
    /\ UNCHANGED handlers

\* line 58 for the next record the iteration yields
LoadAppend ==
    /\ cursor # <<>>
    /\ CanAppend(staff, Head(cursor))
    /\ staff' = staff_append(staff, Head(cursor))
    /\ cursor' = Tail(cursor)
    /\ UNCHANGED <<found, loadPc, loads, discarded, handlers>>

\* line 58 raising: the record's rank is no list of the registry
LoadKeyError ==
    /\ cursor # <<>>
    /\ ~CanAppend(staff, Head(cursor))
    /\ loadPc' = "error"
    /\ UNCHANGED <<staff, cursor, found, loads, discarded, handlers>>

\* the database iteration itself raising (line 57)
LoadIterError ==
    /\ loadPc' = "error"
    /\ UNCHANGED <<staff, cursor, found, loads, discarded, handlers>>

\* the async for of line 57 ends when the cursor has yielded every record
IterationExhaustedEarly == TRUE

IterationExhausted == cursor = <<>>

\* the iteration is exhausted: _load_staff returns
LoadEnd ==
    /\ IterationExhausted
    /\ loadPc' = "done"
    /\ UNCHANGED <<staff, cursor, found, loads, discarded, handlers>>

\* ------------------------------------------------------------- on_command
Cmds == {"ping", "ban"}           \* the commands a message can carry
HandlerCmds == {"ping"}           \* the commands handlers are registered for
Groups == {0, 1}
Senders == UserIds \cup {OwnerId}

\* decorator (lines 157-164): the conjuncts of the composite filter, in order
decorator_staff_first(filters, admin, staffOnly) ==
    <<"command">>
        \o (IF filters THEN <<"filters">> ELSE <<>>)
        \o (IF staffOnly THEN <<"staff">>
            ELSE IF admin THEN <<"admin", "bot_admin">>
            ELSE <<>>)

decorator_no_gate(filters, admin, staffOnly) ==
    <<"command">>
        \o (IF filters THEN <<"filters">> ELSE <<>>)
        \o (IF admin THEN <<"admin", "bot_admin">> ELSE <<>>)

decorator(filters, admin, staffOnly) ==
    <<"command">>
        \o (IF filters THEN <<"filters">> ELSE <<>>)
        \o (IF admin THEN <<"admin", "bot_admin">>
            ELSE IF staffOnly THEN <<"staff">>
            ELSE <<>>)

\* on_command (lines 126-168): the handler is registered with the composite
\* filter and the dispatch group
on_command(cmd, filters, admin, staffOnly, group) ==
    /\ Len(handlers) < MaxHandlers
    /\ handlers' = Append(handlers,
            [cmd |-> cmd, filters |-> filters, admin |-> admin,
             staff |-> staffOnly, group |-> group,
             pred |-> decorator(filters, admin, staffOnly)])
    /\ UNCHANGED <<staff, cursor, found, loadPc, loads, discarded>>

\* A message, as far as the filters look at it
Messages ==
    [cmd : Cmds, sender : Senders, private : BOOLEAN,
     senderAdmin : BOOLEAN, botAdmin : BOOLEAN, extra : BOOLEAN]

Range(s) == {s[i] : i \in 1..Len(s)}

\* One conjunct of a composite filter on message m: "accept", "reject", or
\* "error" when evaluating it raises
cust_filter(name, h, m, reg) ==
    CASE name = "command" -> IF m.cmd = h.cmd THEN "accept" ELSE "reject"
      [] name = "filters" -> IF m.extra THEN "accept" ELSE "reject"
      [] name = "admin" ->
            IF ~m.private /\ m.senderAdmin THEN "accept" ELSE "reject"
      [] name = "bot_admin" ->
            IF ~m.private /\ m.botAdmin THEN "accept" ELSE "reject"
      [] name = "staff" ->
            IF staff_id(reg).raises # "none" THEN "error"
            ELSE IF m.sender \in Range(staff_id(reg).ids) THEN "accept" ELSE "reject"

\* a & b of pyrogram filters: the right operand is evaluated only when the
\* left one accepts
RECURSIVE AndFilter(_, _, _, _)
AndFilter(pred, h, m, reg) ==
    IF pred = <<>> THEN "accept"
    ELSE LET r == cust_filter(Head(pred), h, m, reg)
         IN  IF r = "accept" THEN AndFilter(Tail(pred), h, m, reg) ELSE r

\* the verdict of handler h's registered filter on message m, now
Verdict(h, m) == AndFilter(h.pred, h, m, staff)
\* ================================================================ lifecycle
\* The tasks one call of begin() can put on the loop
StartT == <<"start", 0>>               \* self.start()             (line 110)
RunT == <<"run", 0>>                   \* coro, or idle()          (lines 115, 118)
FinT == <<"fin", 0>>                   \* the main path's finalized() (line 119)
Sd(i) == <<"sd", i>>                   \* shutdown(sig), per signal   (line 108)
SdTasks == {Sd(i) : i \in 1..MaxSignals}
FinTasks == {FinT} \cup SdTasks        \* the tasks that run finalized
Tasks == {StartT, RunT} \cup FinTasks

Signals == {"SIGHUP", "SIGTERM", "SIGINT"}     \* line 106
IdleSignals == {"SIGINT", "SIGTERM"}   \* of these, the ones idle() hooks too

\* What a collaborator's call can raise: RuntimeError, which line 120 names,
\* or any other exception (ConnectionError, ImportError, ...)
Errs == {"RuntimeError", "Error"}
Cancelled == "CancelledError"

\* The STAFF collections drawn when start() loads the staff
StartupDbs == {<<[rank |-> r, id |-> 1]>> : r \in {"dev", "mod"}}

Ended == {"done", "cancelled", "failed"}
Live(t) == pc[t] \notin Ended \cup {"absent"}      \* t is in asyncio.all_tasks()
BodyPcs == {"client_stop", "disconnect_db", "pool_stop"}
\* suspension points that an event outside the loop ends (I/O, a timer)
ExternalPcs ==
    {"connect_db", "load_staff", "client_start", "running", "sleep"} \cup BodyPcs

Scheduled(t) == <<"step", t>> \in Range(cur \o ready)

\* the future loop.run_until_complete is waiting for
Awaited ==
    CASE mainPc = "run_start" -> StartT
      [] mainPc = "run_main" -> RunT
      [] mainPc = "run_fin" -> FinT
      [] OTHER -> <<"none", 0>>

\* the done-callback run_until_complete put on its future
DoneCallback(t) == IF Awaited = t THEN <<<<"cb", t>>>> ELSE <<>>

\* the idle phase of begin(): start() has returned, there is no one-shot task,
\* and idle() sleeps
IdlePhase == mainPc = "run_main" /\ ~hasCoro /\ pc[RunT] = "sleep"

\* the state in which begin() is called (after construction, lines 26-36)
InitLife ==
    /\ mainPc = "begin"
    /\ mainExc = "none"
    /\ hasCoro \in BOOLEAN
    /\ running = FALSE
    /\ stopping = FALSE
    /\ loopClosed = FALSE
    /\ sigBound = FALSE
    /\ cur = <<>>
    /\ ready = <<>>
    /\ pc = [t \in Tasks |-> "absent"]
    /\ exc = [t \in Tasks |-> "none"]
    /\ mustCancel = {}
    /\ locked = FALSE
    /\ waiters = <<>>
    /\ wfut = [t \in Tasks |-> "none"]
    /\ is_initialized = FALSE
    /\ is_idling = FALSE
    /\ idleHooked = FALSE
    /\ poolStarted = FALSE
    /\ dbConnected = FALSE
    /\ startLog = <<>>
    /\ finLog = <<>>
    /\ sigs = 0
    /\ idleSig = FALSE

Init == InitRegistry /\ InitLife

\* ------------------------------------------------------------ the main path
\* loop.run_until_complete(t): the task is created and the loop runs
RunUntilComplete(t, at) ==
    /\ mainPc' = at
    /\ pc' = [pc EXCEPT ![t] = "new"]
    /\ ready' = Append(ready, <<"step", t>>)
    /\ running' = TRUE
    /\ stopping' = FALSE

\* begin() up to line 110: the lock, the signal handlers, then start()
Begin ==
    /\ mainPc = "begin"
    /\ sigBound' = TRUE
    /\ RunUntilComplete(StartT, "run_start")
    /\ UNCHANGED <<mainExc, hasCoro, loopClosed, cur, exc, mustCancel>>
    /\ UNCHANGED <<staffVars, lockVars, clientVars, histVars>>

\* run_forever leaves its loop: the iteration is over and stop() was called
LoopExits == running /\ cur = <<>> /\ stopping

\* what run_until_complete raises, "none" when it returns
RunOutcome(t) ==
    IF pc[t] = "done" THEN "none"
    ELSE IF pc[t] = "failed" THEN exc[t]
    ELSE IF pc[t] = "cancelled" THEN Cancelled
    ELSE "RuntimeError"     \* Event loop stopped before Future completed

\* line 110 returns: lines 112-118 start the one-shot task or idle()
StartReturns ==
    /\ mainPc = "run_start" /\ LoopExits
    /\ RunOutcome(StartT) = "none"
    /\ RunUntilComplete(RunT, "run_main")
    /\ UNCHANGED <<mainExc, hasCoro, loopClosed, sigBound, cur, exc, mustCancel>>
    /\ UNCHANGED <<staffVars, lockVars, clientVars, histVars>>

\* line 110 raises, outside the try block: the exception leaves begin()
StartRaises ==
    /\ mainPc = "run_start" /\ LoopExits
    /\ RunOutcome(StartT) # "none"
    /\ mainPc' = "raised"
    /\ mainExc' = RunOutcome(StartT)
    /\ running' = FALSE
    /\ stopping' = FALSE
    /\ UNCHANGED <<hasCoro, loopClosed, sigBound, cur, ready>>
    /\ UNCHANGED <<staffVars, taskVars, lockVars, clientVars, histVars>>

\* line 115 / 118 returns: line 119 runs finalized() on the main path
RunReturns ==
    /\ mainPc = "run_main" /\ LoopExits
    /\ RunOutcome(RunT) = "none"
    /\ RunUntilComplete(FinT, "run_fin")
    /\ UNCHANGED <<mainExc, hasCoro, loopClosed, sigBound, cur, exc, mustCancel>>
    /\ UNCHANGED <<staffVars, lockVars, clientVars, histVars>>

\* lines 120-124: CancelledError and RuntimeError are passed over, anything
\* else leaves begin(); the loop is closed either way
Suppressed(e) == e \in {Cancelled, "RuntimeError"}

\* lines 122-123: loop.close() is in the finally block, whatever e the try
\* block ended with
LoopClosedIfCaught(e) == e = "none" \/ Suppressed(e)

LoopClosedAfter(e) == TRUE

TryEnds(t) ==
    LET e == RunOutcome(t)
    IN  /\ mainPc' = IF e = "none" \/ Suppressed(e) THEN "closed" ELSE "raised"
        /\ mainExc' = IF e = "none" \/ Suppressed(e) THEN "none" ELSE e
        /\ loopClosed' = LoopClosedAfter(e)
        /\ running' = FALSE
        /\ stopping' = FALSE
        /\ UNCHANGED <<hasCoro, sigBound, cur, ready>>
        /\ UNCHANGED <<staffVars, taskVars, lockVars, clientVars, histVars>>

RunRaises ==
    /\ mainPc = "run_main" /\ LoopExits
    /\ RunOutcome(RunT) # "none"
    /\ TryEnds(RunT)

FinEnds ==
    /\ mainPc = "run_fin" /\ LoopExits
    /\ TryEnds(FinT)
\* ------------------------------------------------------------ the event loop
\* the handle the loop runs now
Now(h) == running /\ cur # <<>> /\ Head(cur) = h

\* the task's coroutine is resumed (no cancellation pending)
Stepping(t) == Now(<<"step", t>>) /\ t \notin mustCancel

Remove(seq, x) == SelectSeq(seq, LAMBDA y : y # x)

\* the members of a set of tasks, as step handles in some order
RECURSIVE StepHandles(_)
StepHandles(S) ==
    IF S = {} THEN <<>>
    ELSE LET u == CHOOSE v \in S : TRUE
         IN  <<<<"step", u>>>> \o StepHandles(S \ {u})

\* the next iteration of run_forever: what was scheduled becomes what runs
NextIter ==
    /\ running /\ cur = <<>> /\ ~stopping /\ ready # <<>>
    /\ cur' = ready
    /\ ready' = <<>>
    /\ UNCHANGED <<running, stopping, loopClosed, sigBound>>
    /\ UNCHANGED <<staffVars, mainVars, taskVars, lockVars, clientVars, histVars>>

\* idle()'s flag after signal s is delivered: idle() has put its own handler
\* on SIGINT and SIGTERM (and SIGABRT), which clears the flag; SIGHUP it leaves
\* alone
IdleFlagAfter(s) == IF idleHooked /\ s \in IdleSignals THEN FALSE ELSE is_idling

\* A signal of line 106 arrives: the loop is handed the handler of line 108;
\* idle(), once it runs, has hooked SIGINT and SIGTERM as well
Signal(s) ==
    /\ sigBound /\ mainPc \notin {"closed", "raised"}
    /\ sigs < MaxSignals
    /\ sigs' = sigs + 1
    /\ idleSig' = (idleSig \/ IdlePhase)
    /\ ready' = Append(ready, <<"sig", Sd(sigs + 1)>>)
    /\ is_idling' = IdleFlagAfter(s)
    /\ UNCHANGED <<running, stopping, loopClosed, sigBound, cur>>
    /\ UNCHANGED <<is_initialized, idleHooked, poolStarted, dbConnected>>
    /\ UNCHANGED <<startLog, finLog>>
    /\ UNCHANGED <<staffVars, mainVars, taskVars, lockVars>>

\* SIGABRT, which only idle() hooks: the idle flag is cleared, nothing is
\* scheduled on the loop
IdleAbort ==
    /\ idleHooked /\ is_idling /\ mainPc \notin {"closed", "raised"}
    /\ is_idling' = FALSE
    /\ UNCHANGED <<is_initialized, idleHooked, poolStarted, dbConnected>>
    /\ UNCHANGED <<staffVars, mainVars, loopVars, taskVars, lockVars, histVars>>

\* line 108: lambda sig=sig: self.loop.create_task(shutdown(sig))
SignalHandler(t) ==
    /\ Now(<<"sig", t>>)
    /\ cur' = Tail(cur)
    /\ pc' = [pc EXCEPT ![t] = "new"]
    /\ ready' = Append(ready, <<"step", t>>)
    /\ UNCHANGED <<running, stopping, loopClosed, sigBound, exc, mustCancel>>
    /\ UNCHANGED <<staffVars, mainVars, lockVars, clientVars, histVars>>

\* run_until_complete's done-callback: loop.stop()
RunCallback(t) ==
    /\ Now(<<"cb", t>>)
    /\ cur' = Tail(cur)
    /\ stopping' = TRUE
    /\ UNCHANGED <<running, loopClosed, sigBound, ready>>
    /\ UNCHANGED <<staffVars, mainVars, taskVars, lockVars, clientVars, histVars>>

\* What a task waits for outside the loop happens (the client, the database
\* or the pool answers, the one-shot task's I/O completes, the sleep of a
\* cleared idle() expires): its wake-up is scheduled
Wake(t) ==
    /\ pc[t] \in ExternalPcs /\ ~Scheduled(t)
    /\ mainPc \notin {"closed", "raised"}
    /\ pc[t] = "sleep" => ~is_idling
    /\ ready' = Append(ready, <<"step", t>>)
    /\ UNCHANGED <<running, stopping, loopClosed, sigBound, cur>>
    /\ UNCHANGED <<staffVars, mainVars, taskVars, lockVars, clientVars, histVars>>

\* ------------------------------------------------------------ asyncio.Lock
\* Lock.acquire takes the lock at once
lock_free_always == TRUE

lock_free ==
    /\ ~locked
    /\ \A i \in 1..Len(waiters) : wfut[waiters[i]] = "cancelled"

\* Lock._wake_up_first on the waiters ws with futures wf
WakeFirst(ws, wf) ==
    IF ws # <<>> /\ wf[Head(ws)] = "pending"
    THEN [wfut |-> [wf EXCEPT ![Head(ws)] = "result"],
          sched |-> <<<<"step", Head(ws)>>>>]
    ELSE [wfut |-> wf, sched |-> <<>>]

\* the task ends: its state, and what its ending schedules
Ends(t, how, e, sched) ==
    /\ pc' = [pc EXCEPT ![t] = how]
    /\ exc' = [exc EXCEPT ![t] = e]
    /\ ready' = (ready \o sched) \o DoneCallback(t)

\* The pending cancellation reaches the task: CancelledError is thrown at the
\* point where it is suspended and ends it. A waiter of the lock leaves the
\* queue (Lock.acquire's except branch wakes the next one if the lock is free)
DeliverCancel(t) ==
    /\ Now(<<"step", t>>) /\ t \in mustCancel
    /\ cur' = Tail(cur)
    /\ mustCancel' = mustCancel \ {t}
    /\ LET ws == Remove(waiters, t)
           w == IF pc[t] = "wait_lock" /\ ~locked
                THEN WakeFirst(ws, [wfut EXCEPT ![t] = "none"])
                ELSE [wfut |-> [wfut EXCEPT ![t] = "none"], sched |-> <<>>]
       IN  /\ waiters' = ws
           /\ wfut' = w.wfut
           /\ Ends(t, "cancelled", Cancelled, w.sched)
    /\ loadPc' = IF t = StartT /\ pc[t] = "load_staff" THEN "error" ELSE loadPc
    /\ UNCHANGED <<staff, cursor, found, loads, discarded, handlers>>
    /\ UNCHANGED <<running, stopping, loopClosed, sigBound, locked>>
    /\ UNCHANGED <<mainVars, clientVars, histVars>>
\* ------------------------------------------------------------------ start()
\* for mod in ALL_MODULES (line 65): the modules, in the order they are imported
ModuleOrderReversed == [i \in 1..NumModules |-> NumModules + 1 - i]

ModuleOrder == [i \in 1..NumModules |-> i]

\* importlib.import_module raising for the k-th module (line 66) leaves start():
\* nothing around it catches
ImportSwallowed(k) == FALSE

ImportAborts(k) == k # 0

\* the log of the import loop from its n-th module on, the k-th import raising
RECURSIVE ImportLog(_, _)
ImportLog(n, k) ==
    IF n > NumModules THEN <<>>
    ELSE IF n = k
         THEN <<<<"import", ModuleOrder[n], "begin">>, <<"import", ModuleOrder[n], "raise">>>>
                \o (IF ImportAborts(k) THEN <<>> ELSE ImportLog(n + 1, k))
         ELSE <<<<"import", ModuleOrder[n], "begin">>, <<"import", ModuleOrder[n], "end">>>>
                \o ImportLog(n + 1, k)

\* an exception leaves start(): the task fails with it
StartFails(e) ==
    /\ cur' = Tail(cur)
    /\ Ends(StartT, "failed", e, <<>>)
    /\ UNCHANGED <<running, stopping, loopClosed, sigBound, mustCancel>>
    /\ UNCHANGED <<mainVars, lockVars, sigs, idleSig, finLog>>

\* line 62, then line 63 up to its await
StartPool ==
    /\ Stepping(StartT) /\ pc[StartT] = "new"
    /\ cur' = Tail(cur)
    /\ poolStarted' = TRUE
    /\ startLog' = startLog
            \o <<<<"pool", 0, "begin">>, <<"pool", 0, "end">>, <<"db", 0, "begin">>>>
    /\ pc' = [pc EXCEPT ![StartT] = "connect_db"]
    /\ UNCHANGED <<is_initialized, is_idling, idleHooked, dbConnected>>
    /\ UNCHANGED <<running, stopping, loopClosed, sigBound, ready, exc, mustCancel>>
    /\ UNCHANGED <<staffVars, mainVars, lockVars, sigs, idleSig, finLog>>

\* pool.start() raises
StartPoolFails(e) ==
    /\ Stepping(StartT) /\ pc[StartT] = "new"
    /\ StartFails(e)
    /\ startLog' = startLog \o <<<<"pool", 0, "begin">>, <<"pool", 0, "raise">>>>
    /\ UNCHANGED <<staffVars, clientVars>>

\* connect_db raises
StartConnectFails(e) ==
    /\ Stepping(StartT) /\ pc[StartT] = "connect_db"
    /\ StartFails(e)
    /\ UNCHANGED <<staffVars, clientVars, startLog>>

\* connect_db returns; lines 64-72 import the modules, the k-th import raising
\* (k = 0: none does); then line 73 runs _load_staff up to its first await,
\* the collection holding the records c
StartConnected(k, c, e) ==
    /\ Stepping(StartT) /\ pc[StartT] = "connect_db"
    /\ dbConnected' = TRUE
    /\ UNCHANGED <<is_initialized, is_idling, idleHooked, poolStarted>>
    /\ IF ImportAborts(k)
       THEN /\ StartFails(e)
            /\ startLog' = Append(startLog, <<"db", 0, "end">>) \o ImportLog(1, k)
            /\ UNCHANGED staffVars
       ELSE /\ cur' = Tail(cur)
            /\ startLog' = (Append(startLog, <<"db", 0, "end">>) \o ImportLog(1, k))
                    \o <<<<"load", 0, "begin">>>>
            /\ LoadBegin(c)
            /\ pc' = [pc EXCEPT ![StartT] = "load_staff"]
            /\ UNCHANGED <<running, stopping, loopClosed, sigBound, ready, exc, mustCancel>>
            /\ UNCHANGED <<mainVars, lockVars, sigs, idleSig, finLog>>

\* the iteration of line 57 yields a record and line 58 appends it
StartLoadAppend ==
    /\ Stepping(StartT) /\ pc[StartT] = "load_staff"
    /\ LoadAppend
    /\ cur' = Tail(cur)
    /\ UNCHANGED <<running, stopping, loopClosed, sigBound, ready>>
    /\ UNCHANGED <<mainVars, taskVars, lockVars, clientVars, histVars>>

\* line 58 raises KeyError
StartLoadKeyError ==
    /\ Stepping(StartT) /\ pc[StartT] = "load_staff"
    /\ LoadKeyError
    /\ StartFails(KeyError)
    /\ startLog' = Append(startLog, <<"load", 0, "raise">>)
    /\ UNCHANGED clientVars

\* the iteration of line 57 raises
StartLoadIterError(e) ==
    /\ Stepping(StartT) /\ pc[StartT] = "load_staff"
    /\ LoadIterError
    /\ StartFails(e)
    /\ startLog' = Append(startLog, <<"load", 0, "raise">>)
    /\ UNCHANGED clientVars

\* the iteration ends, _load_staff returns; lines 74-75 up to the await
StartLoaded ==
    /\ Stepping(StartT) /\ pc[StartT] = "load_staff"
    /\ LoadEnd
    /\ cur' = Tail(cur)
    /\ startLog' = startLog \o <<<<"load", 0, "end">>, <<"client", 0, "begin">>>>
    /\ pc' = [pc EXCEPT ![StartT] = "client_start"]
    /\ UNCHANGED <<running, stopping, loopClosed, sigBound, ready, exc, mustCancel>>
    /\ UNCHANGED <<mainVars, lockVars, clientVars, sigs, idleSig, finLog>>

\* super().start() returns: the client is initialized and start() returns
StartClient ==
    /\ Stepping(StartT) /\ pc[StartT] = "client_start"
    /\ cur' = Tail(cur)
    /\ is_initialized' = TRUE
    /\ startLog' = Append(startLog, <<"client", 0, "end">>)
    /\ Ends(StartT, "done", "none", <<>>)
    /\ UNCHANGED <<is_idling, idleHooked, poolStarted, dbConnected>>
    /\ UNCHANGED <<running, stopping, loopClosed, sigBound, mustCancel>>
    /\ UNCHANGED <<staffVars, mainVars, lockVars, sigs, idleSig, finLog>>

\* super().start() raises
StartClientFails(e) ==
    /\ Stepping(StartT) /\ pc[StartT] = "client_start"
    /\ StartFails(e)
    /\ UNCHANGED <<staffVars, clientVars, startLog>>
\* ----------------------------------------------------- finalized / shutdown
\* what line 94 reads, as the log records it
InitializedRead == IF is_initialized THEN "initialized" ELSE "not_initialized"

\* line 94: stop the client only if it is initialized
stop_always == TRUE

stop_wanted == is_initialized

\* the task gets the lock: at once (line 91 with the lock free), or as the
\* waiter the last release woke
Entering(t) ==
    /\ Stepping(t) /\ t \in FinTasks
    /\ \/ pc[t] = "new" /\ lock_free
       \/ pc[t] = "wait_lock" /\ wfut[t] = "result"

\* line 91 with the lock taken: the task queues on it
FinBlock(t) ==
    /\ Stepping(t) /\ t \in FinTasks
    /\ pc[t] = "new" /\ ~lock_free
    /\ cur' = Tail(cur)
    /\ waiters' = Append(waiters, t)
    /\ wfut' = [wfut EXCEPT ![t] = "pending"]
    /\ pc' = [pc EXCEPT ![t] = "wait_lock"]
    /\ UNCHANGED <<running, stopping, loopClosed, sigBound, ready, exc, mustCancel, locked>>
    /\ UNCHANGED <<staffVars, mainVars, clientVars, histVars>>

\* lines 91-93: the lock is taken and the tracked tasks are cancelled (the list
\* of line 88 is never added to, so there are none)
EnterSteps(t) == <<<<t, "enter">>, <<t, "cancel_tracked">>>>

\* lines 97-99, in the order they are executed
SweepStepsStopFirst(t) == <<<<t, "loop.stop">>, <<t, "cancel_all">>, <<t, "asyncgens">>>>

SweepSteps(t) == <<<<t, "cancel_all">>, <<t, "asyncgens">>, <<t, "loop.stop">>>>

\* line 97: the tasks t.cancel() is called on when task t runs the sweep:
\* asyncio.all_tasks() holds the tasks of the loop that are not done
SweepTargetsAll(t) == {u \in Tasks : Live(u)}

SweepTargets(t) == {u \in Tasks : u # t /\ Live(u)}

\* lines 97-100 and the end of the with block, run by t, whose log so far is
\* log: every other task of the loop is cancelled (the wake-up of one that is
\* suspended is scheduled), the loop is told to stop, the lock is released
Finish(t, log) ==
    LET targets == SweepTargets(t)
        ws == Remove(waiters, t)
        wf == [u \in Tasks |->
                 IF u = t THEN "none"
                 ELSE IF u \in targets /\ wfut[u] = "pending" THEN "cancelled"
                 ELSE wfut[u]]
        w == WakeFirst(ws, wf)
    IN  /\ cur' = Tail(cur)
        /\ mustCancel' = mustCancel \cup targets
        /\ waiters' = ws
        /\ wfut' = w.wfut
        /\ locked' = FALSE
        /\ stopping' = TRUE
        /\ finLog' = log \o SweepSteps(t)
        /\ Ends(t, "done", "none",
                StepHandles({u \in targets : ~Scheduled(u)}) \o w.sched)
        /\ UNCHANGED <<running, loopClosed, sigBound>>
        /\ UNCHANGED <<staffVars, mainVars, startLog, sigs, idleSig>>

\* lines 91-95: in the lock with the client initialized, self.stop() is called
\* and runs up to the await of super().stop() (line 80)
FinStop(t) ==
    /\ Entering(t) /\ stop_wanted
    /\ cur' = Tail(cur)
    /\ locked' = TRUE
    /\ waiters' = Remove(waiters, t)
    /\ wfut' = [wfut EXCEPT ![t] = "none"]
    /\ pc' = [pc EXCEPT ![t] = "client_stop"]
    /\ finLog' = (finLog \o EnterSteps(t)) \o <<<<t, InitializedRead>>, <<t, "client.stop">>>>
    /\ UNCHANGED <<running, stopping, loopClosed, sigBound, ready, exc, mustCancel>>
    /\ UNCHANGED <<staffVars, mainVars, clientVars, startLog, sigs, idleSig>>

\* lines 91-100 with the client not initialized: nothing is awaited
FinSkip(t) ==
    /\ Entering(t) /\ ~stop_wanted
    /\ Finish(t, Append(finLog \o EnterSteps(t), <<t, InitializedRead>>))
    /\ UNCHANGED clientVars

\* an exception leaves finalized: the with block releases the lock, the task
\* fails with it
FinFails(t, e) ==
    LET w == WakeFirst(waiters, wfut)
    IN  /\ cur' = Tail(cur)
        /\ locked' = FALSE
        /\ wfut' = w.wfut
        /\ Ends(t, "failed", e, w.sched)
        /\ finLog' = Append(finLog, <<t, "raise">>)
        /\ UNCHANGED <<running, stopping, loopClosed, sigBound, mustCancel, waiters>>
        /\ UNCHANGED <<staffVars, mainVars, startLog, sigs, idleSig>>

\* is_initialized once super().stop() has returned (line 80): the client's
\* terminate() has cleared it
InitializedAfterStopKept == TRUE

InitializedAfterStop == FALSE

\* super().stop() returns (line 80): the client is no longer initialized;
\* line 81 up to its await
FinClientStopped(t) ==
    /\ Stepping(t) /\ pc[t] = "client_stop"
    /\ cur' = Tail(cur)
    /\ is_initialized' = InitializedAfterStop
    /\ pc' = [pc EXCEPT ![t] = "disconnect_db"]
    /\ finLog' = finLog \o <<<<t, "client.stopped">>, <<t, "disconnect_db">>>>
    /\ UNCHANGED <<is_idling, idleHooked, poolStarted, dbConnected>>
    /\ UNCHANGED <<running, stopping, loopClosed, sigBound, ready, exc, mustCancel>>
    /\ UNCHANGED <<staffVars, mainVars, lockVars, startLog, sigs, idleSig>>

\* super().stop() raises, before or after the client has cleared its flag
FinClientStopFails(t, e, flag) ==
    /\ Stepping(t) /\ pc[t] = "client_stop"
    /\ flag \in {is_initialized, FALSE}
    /\ is_initialized' = flag
    /\ FinFails(t, e)
    /\ UNCHANGED <<is_idling, idleHooked, poolStarted, dbConnected>>

\* disconnect_db returns (line 81); line 82 up to its await
FinDbDisconnected(t) ==
    /\ Stepping(t) /\ pc[t] = "disconnect_db"
    /\ cur' = Tail(cur)
    /\ dbConnected' = FALSE
    /\ pc' = [pc EXCEPT ![t] = "pool_stop"]
    /\ finLog' = finLog \o <<<<t, "db.disconnected">>, <<t, "pool.stop">>>>
    /\ UNCHANGED <<is_initialized, is_idling, idleHooked, poolStarted>>
    /\ UNCHANGED <<running, stopping, loopClosed, sigBound, ready, exc, mustCancel>>
    /\ UNCHANGED <<staffVars, mainVars, lockVars, startLog, sigs, idleSig>>

FinDbDisconnectFails(t, e) ==
    /\ Stepping(t) /\ pc[t] = "disconnect_db"
    /\ FinFails(t, e)
    /\ UNCHANGED clientVars

\* pool.stop() returns (line 82), stop() returns, lines 97-100 follow
FinPoolStopped(t) ==
    /\ Stepping(t) /\ pc[t] = "pool_stop"
    /\ poolStarted' = FALSE
    /\ Finish(t, Append(finLog, <<t, "pool.stopped">>))
    /\ UNCHANGED <<is_initialized, is_idling, idleHooked, dbConnected>>

FinPoolStopFails(t, e) ==
    /\ Stepping(t) /\ pc[t] = "pool_stop"
    /\ FinFails(t, e)
    /\ UNCHANGED clientVars
\* ------------------------------------------------ idle() and the one-shot task
\* idle() starts (line 118): it hooks its signals, sets its flag and sleeps
IdleStart ==
    /\ Stepping(RunT) /\ ~hasCoro /\ pc[RunT] = "new"
    /\ cur' = Tail(cur)
    /\ idleHooked' = TRUE
    /\ is_idling' = TRUE
    /\ pc' = [pc EXCEPT ![RunT] = "sleep"]
    /\ UNCHANGED <<is_initialized, poolStarted, dbConnected>>
    /\ UNCHANGED <<running, stopping, loopClosed, sigBound, ready, exc, mustCancel>>
    /\ UNCHANGED <<staffVars, mainVars, lockVars, histVars>>

\* idle() wakes from its sleep with its flag cleared and returns
IdleReturns ==
    /\ Stepping(RunT) /\ ~hasCoro /\ pc[RunT] = "sleep" /\ ~is_idling
    /\ cur' = Tail(cur)
    /\ Ends(RunT, "done", "none", <<>>)
    /\ UNCHANGED <<running, stopping, loopClosed, sigBound, mustCancel>>
    /\ UNCHANGED <<staffVars, mainVars, lockVars, clientVars, histVars>>

\* the one-shot task (line 115) runs up to an await of its own
CoroAwaits ==
    /\ Stepping(RunT) /\ hasCoro /\ pc[RunT] = "new"
    /\ cur' = Tail(cur)
    /\ pc' = [pc EXCEPT ![RunT] = "running"]
    /\ UNCHANGED <<running, stopping, loopClosed, sigBound, ready, exc, mustCancel>>
    /\ UNCHANGED <<staffVars, mainVars, lockVars, clientVars, histVars>>

\* the one-shot task returns
CoroReturns ==
    /\ Stepping(RunT) /\ hasCoro /\ pc[RunT] \in {"new", "running"}
    /\ cur' = Tail(cur)
    /\ Ends(RunT, "done", "none", <<>>)
    /\ UNCHANGED <<running, stopping, loopClosed, sigBound, mustCancel>>
    /\ UNCHANGED <<staffVars, mainVars, lockVars, clientVars, histVars>>

\* the one-shot task raises
CoroRaises(e) ==
    /\ Stepping(RunT) /\ hasCoro /\ pc[RunT] \in {"new", "running"}
    /\ cur' = Tail(cur)
    /\ Ends(RunT, "failed", e, <<>>)
    /\ UNCHANGED <<running, stopping, loopClosed, sigBound, mustCancel>>
    /\ UNCHANGED <<staffVars, mainVars, lockVars, clientVars, histVars>>

\* -------------------------------------------------------------------- Spec
Next ==
    \/ Begin
    \/ StartReturns
    \/ StartRaises
    \/ RunReturns
    \/ RunRaises
    \/ FinEnds
    \/ NextIter
    \/ \E s \in Signals : Signal(s)
    \/ IdleAbort
    \/ \E t \in SdTasks : SignalHandler(t)
    \/ \E t \in Tasks : RunCallback(t)
    \/ \E t \in Tasks : Wake(t)
    \/ \E t \in Tasks : DeliverCancel(t)
    \/ StartPool
    \/ \E e \in Errs : StartPoolFails(e)
    \/ \E e \in Errs : StartConnectFails(e)
    \/ \E k \in 0..NumModules, c \in StartupDbs, e \in Errs : StartConnected(k, c, e)
    \/ StartLoadAppend
    \/ StartLoadKeyError
    \/ \E e \in Errs : StartLoadIterError(e)
    \/ StartLoaded
    \/ StartClient
    \/ \E e \in Errs : StartClientFails(e)
    \/ \E t \in FinTasks : FinBlock(t)
    \/ \E t \in FinTasks : FinStop(t)
    \/ \E t \in FinTasks : FinSkip(t)
    \/ \E t \in FinTasks : FinClientStopped(t)
    \/ \E t \in FinTasks, e \in Errs, flag \in BOOLEAN : FinClientStopFails(t, e, flag)
    \/ \E t \in FinTasks : FinDbDisconnected(t)
    \/ \E t \in FinTasks, e \in Errs : FinDbDisconnectFails(t, e)
    \/ \E t \in FinTasks : FinPoolStopped(t)
    \/ \E t \in FinTasks, e \in Errs : FinPoolStopFails(t, e)
    \/ IdleStart
    \/ IdleReturns
    \/ CoroAwaits
    \/ CoroReturns
    \/ \E e \in Errs : CoroRaises(e)

Spec == Init /\ [][Next]_vars
\* --------------------------------------------------------------- SpecStaff
\* The registry and the facade used on their own: _load_staff is called, one
\* call at a time, over whatever the collection holds then, and handlers are
\* registered; begin() is not called.
InitStaffSpec == InitRegistry /\ InitLife /\ ~hasCoro

CallLoadStaff(c) ==
    /\ loadPc # "iter"
    /\ loads < MaxLoads
    /\ LoadBegin(c)
    /\ UNCHANGED lifeVars

LoadStepAppend == loadPc = "iter" /\ LoadAppend /\ UNCHANGED lifeVars
LoadStepKeyError == loadPc = "iter" /\ LoadKeyError /\ UNCHANGED lifeVars
LoadStepIterError == loadPc = "iter" /\ LoadIterError /\ UNCHANGED lifeVars
LoadStepEnd == loadPc = "iter" /\ LoadEnd /\ UNCHANGED lifeVars

Register(cmd, filters, admin, staffOnly, group) ==
    /\ on_command(cmd, filters, admin, staffOnly, group)
    /\ UNCHANGED lifeVars

NextStaff ==
    \/ \E c \in Collections : CallLoadStaff(c)
    \/ LoadStepAppend
    \/ LoadStepKeyError
    \/ LoadStepIterError
    \/ LoadStepEnd

SpecStaff == InitStaffSpec /\ [][NextStaff]_vars

\* ----------------------------------------------------------------- SpecCmd
\* The facade and the registry together: handlers are registered and
\* _load_staff is called, in any order, the collection holding "dev" and
\* "sudo" records of one user.
CmdCollections ==
    {c \in Collections : \A i \in 1..Len(c) : c[i].id = 1 /\ c[i].rank # "mod"}

NextCmd ==
    \/ \E c \in CmdCollections : CallLoadStaff(c)
    \/ LoadStepAppend
    \/ LoadStepIterError
    \/ LoadStepEnd
    \/ \E cmd \in HandlerCmds, filters \in BOOLEAN, admin \in BOOLEAN,
          staffOnly \in BOOLEAN, group \in Groups :
            Register(cmd, filters, admin, staffOnly, group)

SpecCmd == InitStaffSpec /\ [][NextCmd]_vars

\* --------------------------------------------------------------- SpecFrame
\* begin() with the facade in use: plugins apply on_command (staff-gated or
\* admin-gated handlers of one command) at any point of the lifecycle.
NextFrame ==
    \/ Next
    \/ \E admin \in BOOLEAN : Register("ping", FALSE, admin, ~admin, 0)

SpecFrame == Init /\ [][NextFrame]_vars

\* ================================================================== claims
\* the identifiers of the records of rank r, in the order of iteration
IdsOf(recs, r) ==
    LET sel == SelectSeq(recs, LAMBDA x : x.rank = r)
    IN  [i \in 1..Len(sel) |-> sel[i].id]

\* C3: once _load_staff has run to completion over records whose ranks are all
\* "dev" or "sudo", staff_id is the owner, then the "dev" identifiers, then the
\* "sudo" identifiers, each group in iteration order, duplicates kept.
C3_StaffIdAfterLoad ==
    (loadPc = "done" /\ \A i \in 1..Len(found) : found[i].rank \in {"dev", "sudo"})
        => staff_id(staff) =
             [raises |-> "none",
              ids |-> <<OwnerId>> \o (IdsOf(found, "dev") \o IdsOf(found, "sudo"))]

\* a load over a "sudo" record followed by a "dev" record of the same identifier
C3_Witness ==
    /\ loadPc = "done"
    /\ Len(found) >= 2
    /\ found[1].rank = "sudo" /\ found[2].rank = "dev"
    /\ found[1].id = found[2].id

\* C4: whatever an earlier load left in the registry, a completed load leaves
\* the "dev" and "sudo" lists that loading the same records into a freshly
\* constructed registry gives.
C4_RefreshReplaces ==
    loadPc = "done" =>
        LET fresh == load_staff_all(InitStaff, found)
        IN  /\ fresh.raises = "none"
            /\ staff["dev"] = fresh.reg["dev"]
            /\ staff["sudo"] = fresh.reg["sudo"]

\* a second load, over other records, of a registry the first one populated
C4_Witness ==
    /\ loadPc = "done" /\ loads >= 2 /\ discarded
    /\ found # <<>>

InRegistry(id) ==
    \/ id = staff["owner"]
    \/ \E k \in DOMAIN staff \cap {"dev", "sudo"} :
          \E j \in 1..Len(staff[k]) : staff[k][j] = id

\* C6: a handler registered with staff true and admin false accepts a message
\* exactly when the command (and the extra filters, if any) match and the
\* sender's identifier is in the registry as the latest load left it; it never
\* accepts a sender outside it.
C6_StaffGate ==
    \A i \in 1..Len(handlers) :
        LET h == handlers[i]
        IN  (h.staff /\ ~h.admin) =>
              \A m \in Messages :
                 Verdict(h, m) = "accept" <=>
                    /\ m.cmd = h.cmd
                    /\ h.filters => m.extra
                    /\ {"dev", "sudo"} \subseteq DOMAIN staff
                    /\ InRegistry(m.sender)

\* after a second load, one sender is accepted and another turned away
C6_Witness ==
    \E i \in 1..Len(handlers) :
        /\ handlers[i].staff /\ ~handlers[i].admin
        /\ loadPc = "done" /\ loads >= 2 /\ discarded
        /\ \E m1, m2 \in Messages :
              /\ m1.sender \in UserIds /\ m2.sender \in UserIds
              /\ Verdict(handlers[i], m1) = "accept"
              /\ m2.cmd = m1.cmd /\ m2.extra = m1.extra
              /\ Verdict(handlers[i], m2) = "reject"
\* how many executions of the body of finalized have started
BodyRuns == Cardinality({i \in 1..Len(finLog) : finLog[i][2] = "enter"})

\* no collaborator's call has raised
NoFailure == \A t \in Tasks : pc[t] # "failed"

\* C1: once a signal has arrived in the idle phase and no call has raised,
\* begin() ends with the body of finalized executed exactly once.
C1_ExactlyOnce ==
    (idleSig /\ NoFailure /\ mainPc \in {"closed", "raised"}) => BodyRuns = 1
\* C2: at no time are two executions of the locked region of finalized in
\* progress: at most one task is suspended inside it, the lock is held while
\* one is, and the steps of two executions never interleave.
C2_MutualExclusion ==
    /\ Cardinality({t \in FinTasks : pc[t] \in BodyPcs}) <= 1
    /\ \A t \in FinTasks : pc[t] \in BodyPcs => locked
    /\ \A i, j \in 1..Len(finLog) :
          (i < j /\ finLog[i][1] = finLog[j][1])
              => \A k \in i..j : finLog[k][1] = finLog[i][1]

\* a signal's shutdown is inside the region while the main path's finalized
\* and another signal's shutdown wait on the lock
C2_Witness ==
    \E t \in SdTasks :
        /\ pc[t] \in BodyPcs
        /\ pc[FinT] = "wait_lock"
        /\ \E u \in SdTasks \ {t} : pc[u] = "wait_lock"

\* the entries of the log made by task t, from position i on
EntriesFrom(t, i) ==
    SelectSeq(SubSeq(finLog, i, Len(finLog)), LAMBDA x : x[1] = t)

\* C7: an execution of finalized that finds the client not initialized goes
\* straight to the cancellation sweep and the loop's stop, and is over: it
\* calls neither the client's stop nor disconnect_db nor pool.stop.
C7_SkipsStopWhenNotInitialized ==
    \A i \in 1..Len(finLog) :
        finLog[i][2] = "not_initialized" =>
            LET t == finLog[i][1]
            IN  /\ EntriesFrom(t, i) =
                       <<<<t, "not_initialized">>, <<t, "cancel_all">>,
                         <<t, "asyncgens">>, <<t, "loop.stop">>>>
                /\ pc[t] = "done"

\* a signal during start(): the shutdown ran with the pool started and the
\* client not yet initialized
C7_Witness ==
    /\ mainPc = "run_start"
    /\ poolStarted /\ ~is_initialized
    /\ \E i \in 1..Len(finLog) : finLog[i][2] = "not_initialized"

\* the steps of start(), in the order the specification gives them
RECURSIVE ImportsInListOrder(_)
ImportsInListOrder(n) ==
    IF n = 0 THEN <<>>
    ELSE ImportsInListOrder(n - 1) \o <<<<"import", n, "begin">>, <<"import", n, "end">>>>

StartupOrder ==
    (<<<<"pool", 0, "begin">>, <<"pool", 0, "end">>,
       <<"db", 0, "begin">>, <<"db", 0, "end">>>>
        \o ImportsInListOrder(NumModules))
        \o <<<<"load", 0, "begin">>, <<"load", 0, "end">>,
             <<"client", 0, "begin">>, <<"client", 0, "end">>>>

\* C8: what start() has done is always a prefix of: pool start, database
\* connect, the imports in list order, staff load, client start, each begun
\* after the previous one ended, none skipped or repeated (a step that raises
\* is the last).
C8_StartupOrder ==
    /\ Len(startLog) <= Len(StartupOrder)
    /\ \A i \in 1..Len(startLog) :
          \/ startLog[i] = StartupOrder[i]
          \/ /\ i = Len(startLog)
             /\ StartupOrder[i][3] = "end"
             /\ startLog[i] = <<StartupOrder[i][1], StartupOrder[i][2], "raise">>

\* start() has run to its end
C8_Witness == startLog = StartupOrder /\ pc[StartT] = "done" /\ is_initialized

C10_ShutdownErrorsAbsorbed ==
    ((\E t \in FinTasks : pc[t] = "failed")
        /\ pc[RunT] # "failed"
        /\ mainPc \in {"closed", "raised"})
        => (mainPc = "closed" /\ mainExc = "none" /\ loopClosed)
\* C11: with a one-shot task and no signal, the shutdown sequence starts only
\* after the task has ended, and whatever the task's outcome, once begin() has
\* ended the main path has executed it: the client is stopped and the loop
\* told to stop (unless a call of the sequence itself raised).
C11_TaskThenShutdown ==
    (hasCoro /\ sigs = 0) =>
        /\ finLog # <<>> => pc[RunT] \in Ended
        /\ (pc[StartT] = "done" /\ mainPc \in {"closed", "raised"}) =>
              /\ <<FinT, "enter">> \in Range(finLog)
              /\ pc[FinT] # "failed" =>
                    (~is_initialized /\ <<FinT, "loop.stop">> \in Range(finLog))
\* the records the current or last _load_staff has appended so far
Consumed == SubSeq(found, 1, Len(found) - Len(cursor))

\* C12 (as stated): while no _load_staff has run to completion (none called,
\* the first one in progress or aborted), reading staff_id raises the lookup
\* failure.
C12_RaisesUntilLoaded ==
    (loads = 0 \/ (loads = 1 /\ loadPc # "done"))
        => staff_id(staff).raises = KeyError

\* C12 (amended): reading staff_id raises the lookup failure exactly while no
\* _load_staff has been called; from the first call's reset on (the load in
\* progress, aborted or complete) it returns the owner followed by the "dev"
\* and the "sudo" identifiers appended so far.
C12_RaisesUntilLoadBegun ==
    /\ loads = 0 => staff_id(staff) = [raises |-> KeyError, ids |-> <<>>]
    /\ loads > 0 =>
          staff_id(staff) =
             [raises |-> "none",
              ids |-> <<OwnerId>> \o (IdsOf(Consumed, "dev") \o IdsOf(Consumed, "sudo"))]

\* the first load aborted part-way: some records appended, some not
C12_Witness ==
    /\ loads = 1 /\ loadPc = "error"
    /\ cursor # <<>> /\ Len(cursor) < Len(found)
    /\ staff_id(staff).raises = "none"
\* a signal of line 106 can be delivered now
Deliverable == sigBound /\ mainPc \notin {"closed", "raised"} /\ sigs < MaxSignals

ShutdownOrder(t, initialized) ==
    (<<<<t, "enter">>, <<t, "cancel_tracked">>>>
        \o (IF initialized
            THEN <<<<t, "initialized">>, <<t, "client.stop">>, <<t, "client.stopped">>,
                   <<t, "disconnect_db">>, <<t, "db.disconnected">>,
                   <<t, "pool.stop">>, <<t, "pool.stopped">>>>
            ELSE <<<<t, "not_initialized">>>>))
        \o <<<<t, "cancel_all">>, <<t, "asyncgens">>, <<t, "loop.stop">>>>

IsPrefix(a, b) == Len(a) <= Len(b) /\ a = SubSeq(b, 1, Len(a))

\* a begins like b and ends where a call of b raised
IsPrefixThenRaise(a, b) ==
    /\ Len(a) >= 2 /\ IsPrefix(SubSeq(a, 1, Len(a) - 1), b)
    /\ a[Len(a)][2] = "raise"
    /\ a[Len(a) - 1][2] \in {"client.stop", "disconnect_db", "pool.stop"}

\* C14: the steps one task executes of the shutdown sequence are always a
\* beginning of: tracked tasks cancelled; if the client is initialized, client
\* stop, then database disconnect, then pool stop; cancellation of the other
\* tasks; asynchronous generators; loop stop last (a call of stop() that raises
\* ends the execution).
C14_ShutdownOrder ==
    \A t \in FinTasks :
        LET mine == EntriesFrom(t, 1)
        IN  /\ \/ \E b \in BOOLEAN : IsPrefix(mine, ShutdownOrder(t, b))
               \/ IsPrefixThenRaise(mine, ShutdownOrder(t, TRUE))
            /\ <<t, "loop.stop">> \in Range(mine) =>
                  (mine[Len(mine)] = <<t, "loop.stop">> /\ pc[t] = "done")

\* a signal's shutdown has run the whole sequence, the client initialized
C14_Witness ==
    \E t \in SdTasks : EntriesFrom(t, 1) = ShutdownOrder(t, TRUE)
\* task t executes the sweep of line 97 in this step
Sweeps(t) ==
    /\ Len(finLog') > Len(finLog)
    /\ <<t, "cancel_all">> \in {finLog'[i] : i \in (Len(finLog) + 1)..Len(finLog')}

\* the tasks on the loop that have not ended, t apart
OthersOnLoop(t) ==
    {u \in Tasks \ {t} : pc[u] \notin {"absent", "done", "cancelled", "failed"}}

\* C15: the step in which a task executes the sweep comes after its client
\* stop step (or after it found the client not initialized), requests the
\* cancellation of exactly the other tasks then on the loop, each of which has
\* its wake-up scheduled, and does not request the cancellation of the task
\* itself.
C15_CancellationSweep ==
    [][\A t \in FinTasks :
          Sweeps(t) =>
              /\ mustCancel' = mustCancel \cup OthersOnLoop(t)
              /\ t \notin mustCancel'
              /\ \A u \in OthersOnLoop(t) :
                    <<"step", u>> \in Range(cur' \o ready')
              /\ \/ pc[t] = "pool_stop"
                 \/ ~is_initialized /\ pc[t] \in {"new", "wait_lock"}
      ]_vars

\* a sweep has reached the running one-shot task and a shutdown task waiting
\* on the lock, both still to end
C15_Witness ==
    /\ hasCoro /\ pc[RunT] = "running" /\ RunT \in mustCancel
    /\ \E t \in SdTasks : pc[t] = "wait_lock" /\ t \in mustCancel
\* this step is one of _load_staff: its reset (lines 55-57) or an append of
\* its loop (line 58)
LoadStaffStep ==
    \/ loads' = loads + 1
    \/ loadPc = "iter" /\ cursor # <<>> /\ cursor' = Tail(cursor)

\* C16: after construction only a step of _load_staff changes the registry:
\* registering a handler, every step of stop() and of the shutdown sequence,
\* and every other step leave it as it is; and no step, _load_staff's
\* included, changes the "owner" entry.
C16_RegistryFrame ==
    [][/\ "owner" \in DOMAIN staff' /\ staff'["owner"] = staff["owner"]
       /\ staff' # staff => LoadStaffStep
       /\ handlers' # handlers => staff' = staff
       /\ finLog' # finLog => staff' = staff
      ]_vars

\* a handler is registered, the staff was loaded and a shutdown has stopped the
\* client: the registry still holds the owner and what was loaded
C16_Witness ==
    /\ handlers # <<>>
    /\ \E t \in FinTasks : <<t, "pool.stopped">> \in Range(finLog)
    /\ loadPc = "done" /\ staff["owner"] = OwnerId /\ staff["dev"] # <<>>
\* how many times a step has been entered, over all tasks
Calls(step) == Cardinality({i \in 1..Len(finLog) : finLog[i][2] = step})

C18_LoopClosedAtEnd ==
    /\ (pc[StartT] = "done" /\ mainPc \in {"closed", "raised"}) => loopClosed
    /\ loopClosed =>
          (mainPc \in {"closed", "raised"} /\ ~running /\ pc[StartT] = "done")

\* the one-shot task raised an error line 120 does not catch: it leaves
\* begin(), the loop closed
C18_Witness ==
    /\ hasCoro /\ pc[RunT] = "failed" /\ exc[RunT] = "Error"
    /\ mainPc = "raised" /\ loopClosed
\* C19: whenever the client is initialized, and already while it is being
\* started, the _load_staff of start() has run to completion: the registry
\* holds the owner and the "dev" and "sudo" lists with every record of the
\* collection, and staff_id returns the full list.
C19_LoadedBeforeDispatch ==
    (is_initialized \/ pc[StartT] = "client_start") =>
        /\ loadPc = "done" /\ loads >= 1 /\ cursor = <<>>
        /\ DOMAIN staff = {"owner", "dev", "sudo"}
        /\ load_staff_all(InitStaff, found) = [raises |-> "none", reg |-> staff]
        /\ staff_id(staff) =
              [raises |-> "none",
               ids |-> <<OwnerId>> \o (IdsOf(found, "dev") \o IdsOf(found, "sudo"))]

\* the client is started, idle() sleeps, the registry holds a "dev" member
C19_Witness ==
    /\ is_initialized /\ IdlePhase
    /\ found # <<>> /\ staff["dev"] # <<>>
====
